---- MODULE Spec2Model ----
(***************************************************************************)
(* Model of lib/GraphicsMagick.js: the mongoose-crate file processor that  *)
(* derives image variants with gm, stores them through a storage provider  *)
(* and records the results on per-transform sub-records of a model.        *)
(*                                                                         *)
(* The configured transform names are 1..numTransforms, in the iteration   *)
(* order of Object.keys(options.transforms).  A JavaScript value that may  *)
(* be undefined is a sequence: << >> is undefined, <<v>> is the value v.   *)
(* One behaviour follows, on one model, either one process() call or up to *)
(* MaxRemoveCalls remove() calls that do not overlap.                      *)
(*                                                                         *)
(* The synchronous functions (_setUpConvertArgs, the temp path built in    *)
(* process, willOverwrite) are applied under FnSpec to inputs drawn by     *)
(* FnInit.  Text they take apart or build is a sequence of one-character   *)
(* strings.                                                                *)
(***************************************************************************)
EXTENDS Integers, Sequences, FiniteSets, TLC

\* ---- bounds ----
MaxTransforms == 2
MaxRemoveCalls == 2
MaxKeys == 2        \* keys of one TransformSpec
MaxListLen == 2     \* elements of an array value
MaxPathLen == 3     \* characters of attachment.path

\* ---- JavaScript values ----
Undefined == << >>
Some(v) == <<v>>
\* !!x for a string-or-undefined field: undefined and '' are falsy
Truthy(x) == x # Undefined /\ x # Some("")

\* ---- errors: one record shape so that every pair is comparable ----
NoError == [kind |-> "none", unit |-> 0]
EngineError == [kind |-> "identify-source", unit |-> 0]
NotAnImage == [kind |-> "File was not an image", unit |-> 0]
StageError(stage, u) == [kind |-> stage, unit |-> u]

SUPPORTED_FORMATS == {"JPEG", "PNG", "GIF", "TIFF"}

\* the attachment handed to process(): path and original name
attachment == [path |-> "/uploads/a.jpg", name |-> "a.jpg"]

\* ---- what the collaborators can answer ----
\* gm(...).identify: attributes of a file
Attrs(f, d, w, h) == [format |-> f, depth |-> d, size |-> [width |-> w, height |-> h]]
SourceAttributes == {Attrs("JPEG", 8, 40, 30), Attrs("PNG", 8, 40, 30), Attrs("BMP", 8, 40, 30)}
OutputAttributes == {Attrs("JPEG", 8, 4, 3), Attrs("PNG", 16, 2, 1)}
\* fs.stat: stats.size
FileSizes == {100, 200}
\* Magic.detectFile
MimeTypes == {"image/png"}
\* storageProvider.save
Urls == {"url-a", "url-b"}

\* ---- sub-records of the model ----
EmptyRec == [format |-> Undefined, depth |-> Undefined, width |-> Undefined,
             height |-> Undefined, size |-> Undefined, url |-> Undefined,
             name |-> Undefined, type |-> Undefined]
BlankUrlRec == [EmptyRec EXCEPT !.url = Some("")]
OldRec == [format |-> Some("GIF"), depth |-> Some(1), width |-> Some(9),
           height |-> Some(9), size |-> Some(999), url |-> Some("url-old"),
           name |-> Some("old.gif"), type |-> Some("image/gif")]
PreCallRecs == {EmptyRec, BlankUrlRec, OldRec}

\* the values a waterfall carries from stage to stage
NoResults == [attributes |-> Undefined, stats |-> Undefined,
              mimeType |-> Undefined, url |-> Undefined]

Stages == <<"convert", "identify", "stat", "sniff", "save">>
StageSet == {Stages[i] : i \in 1..Len(Stages)}

VARIABLES
  numTransforms,  \* number of keys of options.transforms
  formats,        \* options.formats
  model,          \* model[name]: the sub-record of each transform name
  ppc,            \* position of the process() call
  ust,            \* state of each TransformUnit
  res,            \* values carried by each unit's waterfall
  par,            \* bookkeeping of async.parallel in process()
  cbCount,        \* how often process()'s callback was invoked
  cbErr,          \* the error it was invoked with
  \* history of the process() call
  pre,            \* the model when process() was called
  srcAnswer,      \* what identify answered for the source attachment
  started,        \* stages invoked per unit
  succeeded,      \* stages that answered without error per unit
  uerr,           \* terminal error of each unit
  failOrder,      \* units in the order their failures were observed
  modelAtReport,  \* the model when the callback was invoked
  \* remove()
  rpc,            \* position of the remove() call
  rst,            \* state of each removal task
  rpar,           \* bookkeeping of async.parallel in remove()
  rcbCount,       \* how often remove()'s callback was invoked (this call)
  rcbErr,         \* the error it was invoked with
  removeCalls,    \* storageProvider.remove invocations per name (this call)
  rFailOrder,     \* removals in the order their failures were observed
  rcalls,         \* number of remove() calls so far
  \* the synchronous functions
  transform,      \* a TransformSpec: its [key, value] entries in Object.keys order
  srcPath,        \* attachment.path, as characters
  args,           \* what _setUpConvertArgs(transform) returned
  outputFile,     \* the outputFile that process built for transform
  woResult        \* what willOverwrite(model) returned

pvars == <<ppc, ust, res, par, cbCount, cbErr, pre, srcAnswer, started, succeeded, uerr,
           failOrder, modelAtReport>>
rvars == <<rpc, rst, rpar, rcbCount, rcbErr, removeCalls, rFailOrder, rcalls>>
fvars == <<transform, srcPath, args, outputFile, woResult>>
vars == <<numTransforms, formats, model, pvars, rvars, fvars>>

Names == 1..numTransforms

\* ---- constructor ----
\* options.formats defaults to SUPPORTED_FORMATS when not given
OptionFormats == {Undefined, Some({"PNG"})}
ConstructFormats(opt) == IF opt = Undefined THEN SUPPORTED_FORMATS ELSE opt[1]

\* ---- async.parallel(tasks, callback) ----
\* variant: an empty task list never reaches the final callback
ParallelStartNeverEmpty(n) == [length |-> n, completed |-> 0, called |-> FALSE]

\* the final callback is wrapped in once(); with no task it fires at once
ParallelStart(n) == [length |-> n, completed |-> 0, called |-> (n = 0)]

\* variant: the final callback is not wrapped in once()
ParallelFiresOnEveryError(p, error) ==
  error # NoError \/ (~p.called /\ p.completed + 1 = p.length)

\* variant: the final callback fires on the first task that completes
ParallelFiresOnFirstCompletion(p, error) == ~p.called

\* does the completion of one task with `error` invoke the final callback?
ParallelFires(p, error) ==
  ~p.called /\ (error # NoError \/ p.completed + 1 = p.length)

\* variant: an error does not close the final callback
ParallelTaskDoneKeepsOpen(p, error) ==
  IF error # NoError
    THEN p
    ELSE [p EXCEPT !.completed = @ + 1,
                   !.called = @ \/ (p.completed + 1 = p.length)]

\* bookkeeping after one task completed with `error`
ParallelTaskDone(p, error) ==
  IF error # NoError
    THEN [p EXCEPT !.called = TRUE]
    ELSE [p EXCEPT !.completed = @ + 1,
                   !.called = @ \/ (p.completed + 1 = p.length)]

\* ---- _setUpTransform: the waterfall's final callback ----
\* variant: width and height exchanged
CommittedRecSwapped(r) ==
  [format |-> Some(r.attributes[1].format),
   depth  |-> Some(r.attributes[1].depth),
   width  |-> Some(r.attributes[1].size.height),
   height |-> Some(r.attributes[1].size.width),
   size   |-> Some(r.stats[1]),
   url    |-> r.url,
   name   |-> Some(attachment.name),
   type   |-> r.mimeType]

\* the eight assignments of lines 145-152
CommittedRec(r) ==
  [format |-> Some(r.attributes[1].format),
   depth  |-> Some(r.attributes[1].depth),
   width  |-> Some(r.attributes[1].size.width),
   height |-> Some(r.attributes[1].size.height),
   size   |-> Some(r.stats[1]),
   url    |-> r.url,
   name   |-> Some(attachment.name),
   type   |-> r.mimeType]

\* variant: model.name is assigned outside the if (!error) block
SubRecordAfterAlwaysName(old, error, r) ==
  IF error = NoError THEN CommittedRec(r)
  ELSE [old EXCEPT !.name = Some(attachment.name)]

\* variant: a url already on the sub-record is kept
SubRecordAfterKeepsUrl(old, error, r) ==
  IF error = NoError
  THEN [CommittedRec(r) EXCEPT !.url = IF Truthy(old.url) THEN old.url ELSE r.url]
  ELSE old

\* if (!error) { model.format = ...; ...; model.type = mimeType }
SubRecordAfter(old, error, r) ==
  IF error = NoError THEN CommittedRec(r) ELSE old

\* ---- text ----
Dot == "."
Slash == "/"
\* x ? ... : ... for a text-or-undefined value: undefined and '' are falsy
TruthyText(x) == x # Undefined /\ x # Some(<< >>)
\* s.substring(from, to) and s.slice(from, to) for 0 <= from <= to
Substring(s, from, to) == SubSeq(s, from + 1, IF to < Len(s) THEN to ELSE Len(s))

\* ---- TransformSpecs ----
FormatKey == <<"f", "o", "r", "m", "a", "t">>
OptionKeys == {<<"r", "e", "s", "i", "z", "e">>, <<"c", "r", "o", "p">>}
ValueTokens == {<<"1", "0">>, <<"x">>}
FormatTexts == {<< >>, <<"p", "n", "g">>, <<".", "p", "n", "g">>}

\* a value is a scalar (items has the one value) or an Array of values
Scalar(v) == [array |-> FALSE, items |-> <<v>>]
Array(vs) == [array |-> TRUE, items |-> vs]
Lists(S, n) == UNION {[1..k -> S] : k \in 0..n}
OptionValues == {Scalar(v) : v \in ValueTokens}
                  \cup {Array(vs) : vs \in Lists(ValueTokens, MaxListLen)}
Entries == {[key |-> FormatKey, value |-> Scalar(f)] : f \in FormatTexts}
             \cup {[key |-> k, value |-> v] : k \in OptionKeys, v \in OptionValues}
\* an object has each key once
TransformSpecs ==
  {t \in Lists(Entries, MaxKeys) :
     \A i, j \in 1..Len(t) : t[i].key = t[j].key => i = j}
FormatOnlySpecs == {t \in TransformSpecs : \A i \in 1..Len(t) : t[i].key = FormatKey}

DefaultTransform == << >>
DefaultPath == <<"a", Dot, "a">>
PathChars == {"a", Dot, Slash}
Paths == Lists(PathChars, MaxPathLen)

\* ---- initial state: a constructed processor and a model ----
InitProcessor ==
  /\ numTransforms \in 0..MaxTransforms
  /\ \E opt \in OptionFormats : formats = ConstructFormats(opt)
  /\ model \in [1..numTransforms -> PreCallRecs]
  /\ ppc = "idle"
  /\ ust = [u \in 1..numTransforms |-> "Pending"]
  /\ res = [u \in 1..numTransforms |-> NoResults]
  /\ par = ParallelStart(0)
  /\ cbCount = 0
  /\ cbErr = NoError
  /\ pre = model
  /\ srcAnswer = [error |-> NoError, attributes |-> Undefined]
  /\ started = [u \in 1..numTransforms |-> {}]
  /\ succeeded = [u \in 1..numTransforms |-> {}]
  /\ uerr = [u \in 1..numTransforms |-> NoError]
  /\ failOrder = << >>
  /\ modelAtReport = model
  /\ rpc = "idle"
  /\ rst = [u \in 1..numTransforms |-> "none"]
  /\ rpar = ParallelStart(0)
  /\ rcbCount = 0
  /\ rcbErr = NoError
  /\ removeCalls = [u \in 1..numTransforms |-> 0]
  /\ rFailOrder = << >>
  /\ rcalls = 0
  /\ args = Undefined
  /\ outputFile = Undefined
  /\ woResult = Undefined

Init ==
  /\ InitProcessor
  /\ transform = DefaultTransform
  /\ srcPath = DefaultPath

Terminal == {"Committed", "Failed"}
InFlight == {"Converting", "Inspecting", "Stating", "Sniffing", "Storing"}

\* no removal is still running
RemoveQuiescent == \A u \in Names : rst[u] # "inflight"

\* ---- process(attachment, storageProvider, model, callback) ----
\* gm(attachment.path).identify(...) is issued
Process ==
  /\ ppc = "idle"
  /\ rpc = "idle"
  /\ ppc' = "identifying"
  /\ pre' = model
  /\ UNCHANGED <<fvars, numTransforms, formats, model, ust, res, par, cbCount, cbErr,
                 srcAnswer, started, succeeded, uerr, failOrder, modelAtReport,
                 rvars>>

\* what identify can answer for the source: an error, no attributes, attributes
IdentifyAnswers ==
  {[error |-> EngineError, attributes |-> Undefined],
   [error |-> NoError, attributes |-> Undefined]}
  \cup {[error |-> NoError, attributes |-> Some(a)] : a \in SourceAttributes}

\* variant: the allow-list is not consulted
SourceVerdictNoFormatCheck(answer) ==
  IF answer.error # NoError THEN answer.error
  ELSE IF answer.attributes = Undefined THEN NotAnImage
  ELSE NoError

\* variant: an identify error is reported as 'File was not an image'
SourceVerdictMasksError(answer) ==
  IF answer.error # NoError THEN NotAnImage
  ELSE IF answer.attributes = Undefined \/ answer.attributes[1].format \notin formats
    THEN NotAnImage
  ELSE NoError

\* if (error) return callback(error)
\* if (!attributes || formats.indexOf(attributes.format) === -1) return callback(new Error(...))
SourceVerdict(answer) ==
  IF answer.error # NoError THEN answer.error
  ELSE IF answer.attributes = Undefined \/ answer.attributes[1].format \notin formats
    THEN NotAnImage
  ELSE NoError

\* the identify callback: reject, or build one task per name and start them all
SourceIdentified ==
  /\ ppc = "identifying"
  /\ \E answer \in IdentifyAnswers :
       LET verdict == SourceVerdict(answer) IN
       /\ srcAnswer' = answer
       /\ IF verdict # NoError
          THEN /\ ppc' = "rejected"
               /\ cbCount' = cbCount + 1
               /\ cbErr' = verdict
               /\ modelAtReport' = model
               /\ UNCHANGED <<ust, res, par, started>>
          ELSE /\ ppc' = "started"
               /\ ust' = [u \in Names |-> "Converting"]
               /\ started' = [u \in Names |-> {"convert"}]
               /\ res' = [u \in Names |-> NoResults]
               /\ par' = ParallelStart(numTransforms)
               /\ cbCount' = IF ParallelStart(numTransforms).called
                             THEN cbCount + 1 ELSE cbCount
               /\ cbErr' = NoError
               /\ modelAtReport' = model
  /\ UNCHANGED <<fvars, numTransforms, formats, model, pre, succeeded, uerr, failOrder, rvars>>

\* variant: stage callbacks are dropped once process() has reported
UnitAtCancelled(u, s) == ust[u] = s /\ ~par.called

\* a stage's callback fires whatever the siblings did: there is no cancellation
UnitAt(u, s) == ust[u] = s

\* variant: the waterfall ignores a stage's error
WaterfallContinuesAlways(error) == TRUE

\* async.waterfall goes on to the next function only without an error
WaterfallContinues(error) == error = NoError

\* variant: every task writes to the sub-record of the last name
SubRecordOfLast(u) == numTransforms

\* _setUpTransform(..., model[name], ...): the sub-record handed to unit u
SubRecordOf(u) == u

\* variant: a failing unit removes the blobs its siblings already stored
UnitFinishWithCleanup(u, error, r) ==
  /\ model' = [model EXCEPT
                 ![SubRecordOf(u)] = SubRecordAfter(model[SubRecordOf(u)], error, r)]
  /\ ust' = [ust EXCEPT ![u] = IF error = NoError THEN "Committed" ELSE "Failed"]
  /\ res' = [res EXCEPT ![u] = IF error = NoError THEN r ELSE NoResults]
  /\ uerr' = [uerr EXCEPT ![u] = error]
  /\ failOrder' = IF error = NoError THEN failOrder ELSE Append(failOrder, u)
  /\ par' = ParallelTaskDone(par, error)
  /\ cbCount' = IF ParallelFires(par, error) THEN cbCount + 1 ELSE cbCount
  /\ cbErr' = IF ParallelFires(par, error) THEN error ELSE cbErr
  /\ modelAtReport' = IF ParallelFires(par, error) THEN model' ELSE modelAtReport
  /\ removeCalls' = [v \in Names |->
                       IF error # NoError /\ ust[v] = "Committed"
                       THEN 1 ELSE removeCalls[v]]
  /\ UNCHANGED <<fvars, numTransforms, formats, ppc, pre, srcAnswer,
                 rpc, rst, rpar, rcbCount, rcbErr, rFailOrder, rcalls>>

\* the waterfall's final callback, the task's callback and async.parallel
UnitFinish(u, error, r) ==
  /\ model' = [model EXCEPT
                 ![SubRecordOf(u)] = SubRecordAfter(model[SubRecordOf(u)], error, r)]
  /\ ust' = [ust EXCEPT ![u] = IF error = NoError THEN "Committed" ELSE "Failed"]
  /\ res' = [res EXCEPT ![u] = IF error = NoError THEN r ELSE NoResults]
  /\ uerr' = [uerr EXCEPT ![u] = error]
  /\ failOrder' = IF error = NoError THEN failOrder ELSE Append(failOrder, u)
  /\ par' = ParallelTaskDone(par, error)
  /\ cbCount' = IF ParallelFires(par, error) THEN cbCount + 1 ELSE cbCount
  /\ cbErr' = IF ParallelFires(par, error) THEN error ELSE cbErr
  /\ modelAtReport' = IF ParallelFires(par, error) THEN model' ELSE modelAtReport
  /\ UNCHANGED <<fvars, numTransforms, formats, ppc, pre, srcAnswer, rvars>>

\* variant: a sniffing error does not stop the unit before save
StageDoneSavesAnyway(u, stage, error, r, nextState, nextStage) ==
  IF WaterfallContinues(error) \/ stage = "sniff"
  THEN /\ ust' = [ust EXCEPT ![u] = nextState]
       /\ res' = [res EXCEPT ![u] = r]
       /\ started' = [started EXCEPT ![u] = @ \cup {nextStage}]
       /\ succeeded' = [succeeded EXCEPT
                          ![u] = IF error = NoError THEN @ \cup {stage} ELSE @]
       /\ UNCHANGED <<fvars, numTransforms, formats, model, ppc, par, cbCount, cbErr,
                      pre, srcAnswer, uerr, failOrder, modelAtReport, rvars>>
  ELSE /\ UnitFinish(u, error, r)
       /\ UNCHANGED <<started, succeeded>>

\* the callback of stage `stage`: invoke the next stage or finish the unit
StageDone(u, stage, error, r, nextState, nextStage) ==
  IF WaterfallContinues(error)
  THEN /\ ust' = [ust EXCEPT ![u] = nextState]
       /\ res' = [res EXCEPT ![u] = r]
       /\ started' = [started EXCEPT ![u] = @ \cup {nextStage}]
       /\ succeeded' = [succeeded EXCEPT
                          ![u] = IF error = NoError THEN @ \cup {stage} ELSE @]
       /\ UNCHANGED <<fvars, numTransforms, formats, model, ppc, par, cbCount, cbErr,
                      pre, srcAnswer, uerr, failOrder, modelAtReport, rvars>>
  ELSE /\ UnitFinish(u, error, r)
       /\ UNCHANGED <<started, succeeded>>

\* processor.out(args).write(outputFile, callback)
ConvertDone(u) ==
  /\ UnitAt(u, "Converting")
  /\ \E error \in {NoError, StageError("convert", u)} :
       StageDone(u, "convert", error, res[u], "Inspecting", "identify")

\* gm(outputFile).identify(callback)
OutputIdentified(u) ==
  /\ UnitAt(u, "Inspecting")
  /\ \/ StageDone(u, "identify", StageError("identify", u), res[u], "Stating", "stat")
     \/ \E a \in OutputAttributes :
          StageDone(u, "identify", NoError, [res[u] EXCEPT !.attributes = Some(a)],
                    "Stating", "stat")

\* fs.stat(outputFile, ...)
StatDone(u) ==
  /\ UnitAt(u, "Stating")
  /\ \/ StageDone(u, "stat", StageError("stat", u), res[u], "Sniffing", "sniff")
     \/ \E sz \in FileSizes :
          StageDone(u, "stat", NoError, [res[u] EXCEPT !.stats = Some(sz)],
                    "Sniffing", "sniff")

\* this._magic.detectFile(outputFile, ...)
SniffDone(u) ==
  /\ UnitAt(u, "Sniffing")
  /\ \/ StageDone(u, "sniff", StageError("sniff", u), res[u], "Storing", "save")
     \/ \E m \in MimeTypes :
          StageDone(u, "sniff", NoError, [res[u] EXCEPT !.mimeType = Some(m)],
                    "Storing", "save")

\* storageProvider.save({path, size, type}, ...) answers; the waterfall ends
SaveDone(u) ==
  /\ UnitAt(u, "Storing")
  /\ \/ /\ UnitFinish(u, StageError("save", u), res[u])
        /\ UNCHANGED <<started, succeeded>>
     \/ \E url \in Urls :
          /\ UnitFinish(u, NoError, [res[u] EXCEPT !.url = Some(url)])
          /\ succeeded' = [succeeded EXCEPT ![u] = @ \cup {"save"}]
          /\ UNCHANGED started

\* ---- remove(storageProvider, model, callback) ----
\* variant: only an undefined url is skipped
RemoveTasksAnyDefined == {u \in Names : model[u].url # Undefined}

\* if (!model[name].url) return; tasks.push(...)
RemoveTasks == {u \in Names : Truthy(model[u].url)}

\* the tasks are built and async.parallel starts every one of them
Remove ==
  /\ ppc = "idle"
  /\ RemoveQuiescent
  /\ rcalls < MaxRemoveCalls
  /\ rcalls' = rcalls + 1
  /\ rpc' = "called"
  /\ rst' = [u \in Names |-> IF u \in RemoveTasks THEN "inflight" ELSE "none"]
  /\ removeCalls' = [u \in Names |-> IF u \in RemoveTasks THEN 1 ELSE 0]
  /\ rpar' = ParallelStart(Cardinality(RemoveTasks))
  /\ rcbCount' = IF RemoveTasks = {} THEN 1 ELSE 0
  /\ rcbErr' = NoError
  /\ rFailOrder' = << >>
  /\ UNCHANGED <<fvars, numTransforms, formats, model, pvars>>

\* variant: a successful removal clears the url of the sub-record
RemoveDoneClearsUrl(u) ==
  /\ rst[u] = "inflight"
  /\ \E error \in {NoError, StageError("remove", u)} :
       /\ rst' = [rst EXCEPT ![u] = IF error = NoError THEN "removed" ELSE "failed"]
       /\ rFailOrder' = IF error = NoError THEN rFailOrder ELSE Append(rFailOrder, u)
       /\ rpar' = ParallelTaskDone(rpar, error)
       /\ rcbCount' = IF ParallelFires(rpar, error) THEN rcbCount + 1 ELSE rcbCount
       /\ rcbErr' = IF ParallelFires(rpar, error) THEN error ELSE rcbErr
       /\ model' = IF error = NoError THEN [model EXCEPT ![u].url = Undefined] ELSE model
  /\ UNCHANGED <<fvars, numTransforms, formats, pvars, rpc, removeCalls, rcalls>>

\* storageProvider.remove(model[name], callback) answers
RemoveDone(u) ==
  /\ rst[u] = "inflight"
  /\ \E error \in {NoError, StageError("remove", u)} :
       /\ rst' = [rst EXCEPT ![u] = IF error = NoError THEN "removed" ELSE "failed"]
       /\ rFailOrder' = IF error = NoError THEN rFailOrder ELSE Append(rFailOrder, u)
       /\ rpar' = ParallelTaskDone(rpar, error)
       /\ rcbCount' = IF ParallelFires(rpar, error) THEN rcbCount + 1 ELSE rcbCount
       /\ rcbErr' = IF ParallelFires(rpar, error) THEN error ELSE rcbErr
  /\ UNCHANGED <<fvars, numTransforms, formats, model, pvars, rpc, removeCalls, rcalls>>

Next ==
  \/ Process
  \/ SourceIdentified
  \/ \E u \in Names : ConvertDone(u)
  \/ \E u \in Names : OutputIdentified(u)
  \/ \E u \in Names : StatDone(u)
  \/ \E u \in Names : SniffDone(u)
  \/ \E u \in Names : SaveDone(u)
  \/ Remove
  \/ \E u \in Names : RemoveDone(u)

Spec == Init /\ [][Next]_vars

\* ---- one process() call whose collaborators all answer ----
LiveInit ==
  /\ Init
  /\ formats = SUPPORTED_FORMATS
  /\ \A u \in Names : model[u] = EmptyRec

LiveNext ==
  \/ Process
  \/ SourceIdentified
  \/ \E u \in Names : ConvertDone(u)
  \/ \E u \in Names : OutputIdentified(u)
  \/ \E u \in Names : StatDone(u)
  \/ \E u \in Names : SniffDone(u)
  \/ \E u \in Names : SaveDone(u)

\* every issued identify, convert, stat, detectFile and save answers
LiveSpec ==
  /\ LiveInit
  /\ [][LiveNext]_vars
  /\ WF_vars(SourceIdentified)
  /\ WF_vars(\E u \in Names : ConvertDone(u))
  /\ WF_vars(\E u \in Names : OutputIdentified(u))
  /\ WF_vars(\E u \in Names : StatDone(u))
  /\ WF_vars(\E u \in Names : SniffDone(u))
  /\ WF_vars(\E u \in Names : SaveDone(u))

\* ---- _setUpConvertArgs(transform) ----
RECURSIVE ConvertArgsLoopWithFormat(_, _, _)
\* variant: the format key is passed to convert like any other key
ConvertArgsLoopWithFormat(t, i, out) ==
  IF i > Len(t) THEN out
  ELSE ConvertArgsLoopWithFormat(t, i + 1,
         Append(out, <<"-">> \o t[i].key) \o t[i].value.items)

RECURSIVE ConvertArgsLoop(_, _, _)
\* Object.keys(transform).forEach: skip format, push '-' + arg, then the
\* elements of an Array value or the value itself
ConvertArgsLoop(t, i, out) ==
  IF i > Len(t) THEN out
  ELSE IF t[i].key = FormatKey THEN ConvertArgsLoop(t, i + 1, out)
  ELSE ConvertArgsLoop(t, i + 1,
         Append(out, <<"-">> \o t[i].key)
           \o (IF t[i].value.array THEN t[i].value.items
                                   ELSE <<t[i].value.items[1]>>))

setUpConvertArgs(t) == ConvertArgsLoop(t, 1, << >>)

SetUpConvertArgs ==
  /\ args = Undefined
  /\ args' = Some(setUpConvertArgs(transform))
  /\ UNCHANGED <<numTransforms, formats, model, pvars, rvars,
                 transform, srcPath, outputFile, woResult>>

\* ---- randomString(length) ----
RandomNameLen == 20
HexDigits == <<"0", "1", "2", "3", "4", "5", "6", "7", "8", "9",
               "a", "b", "c", "d", "e", "f">>
\* Buffer.toString('hex'): two digits per byte
ToHex(bytes) ==
  [i \in 1..(2 * Len(bytes)) |->
     LET b == bytes[(i + 1) \div 2] IN
     IF i % 2 = 1 THEN HexDigits[(b \div 16) + 1] ELSE HexDigits[(b % 16) + 1]]
\* what crypto.randomBytes(n) can return: samples of the 256^n buffers
RandomBytes(n) ==
  {[i \in 1..n |-> b] : b \in {0, 171, 255}} \cup {[i \in 1..n |-> (i * 37) % 256]}
\* randomBytes(Math.ceil(length / 2)).toString('hex').slice(0, length)
randomString(length, bytes) == Substring(ToHex(bytes), 0, length)

\* ---- path.extname ----
RECURSIVE StripSlashes(_)
StripSlashes(p) ==
  IF p # << >> /\ p[Len(p)] = Slash THEN StripSlashes(SubSeq(p, 1, Len(p) - 1)) ELSE p
\* the last portion of the path, trailing slashes ignored
BaseName(p) ==
  LET q == StripSlashes(p)
      slashes == {i \in 1..Len(q) : q[i] = Slash}
      from == IF slashes = {} THEN 1
              ELSE (CHOOSE i \in slashes : \A j \in slashes : j <= i) + 1
  IN SubSeq(q, from, Len(q))
\* from the last '.' of the last portion to its end; '' when there is no
\* '.', when the only '.' is its first character, or when it is '..'
ExtName(p) ==
  LET b == BaseName(p)
      dots == {i \in 1..Len(b) : b[i] = Dot}
      last == CHOOSE i \in dots : \A j \in dots : j <= i
  IN IF dots = {} \/ dots = {1} \/ b = <<Dot, Dot>> THEN << >>
     ELSE SubSeq(b, last, Len(b))

\* ---- process: the outputFile of one transform ----
tmpDir == <<Slash, "t", "m", "p">>
\* transform.format: the value under the key format, if there is one
FormatOf(t) ==
  IF \E i \in 1..Len(t) : t[i].key = FormatKey
  THEN Some(t[CHOOSE i \in 1..Len(t) : t[i].key = FormatKey].value.items[1])
  ELSE Undefined

\* variant: a dot is always prepended
ExtensionAlwaysDotted(t, p) ==
  LET extension == IF TruthyText(FormatOf(t)) THEN FormatOf(t)[1] ELSE ExtName(p)
  IN <<Dot>> \o extension

\* transform.format ? transform.format : path.extname(attachment.path),
\* with '.' prepended unless it begins with one
Extension(t, p) ==
  LET extension == IF TruthyText(FormatOf(t)) THEN FormatOf(t)[1] ELSE ExtName(p)
  IN IF Substring(extension, 0, 1) # <<Dot>> THEN <<Dot>> \o extension ELSE extension

\* path.join(this._options.tmpDir, randomString(20) + extension)
OutputFileFor(t, p, bytes) ==
  tmpDir \o <<Slash>> \o randomString(RandomNameLen, bytes) \o Extension(t, p)

BuildOutputFile ==
  /\ outputFile = Undefined
  /\ \E bytes \in RandomBytes((RandomNameLen + 1) \div 2) :
       outputFile' = Some(OutputFileFor(transform, srcPath, bytes))
  /\ UNCHANGED <<numTransforms, formats, model, pvars, rvars,
                 transform, srcPath, args, woResult>>

\* ---- willOverwrite(model) ----
RECURSIVE WillOverwriteAny(_, _, _)
\* variant: result = result || !!model[name].url
WillOverwriteAny(m, i, result) ==
  IF i > Len(m) THEN result
  ELSE WillOverwriteAny(m, i + 1, result \/ Truthy(m[i].url))

RECURSIVE WillOverwriteLoop(_, _, _)
\* forEach name: result = !!model[name].url
WillOverwriteLoop(m, i, result) ==
  IF i > Len(m) THEN result
  ELSE WillOverwriteLoop(m, i + 1, Truthy(m[i].url))

willOverwrite(m) == WillOverwriteLoop(m, 1, FALSE)

WillOverwrite ==
  /\ woResult = Undefined
  /\ woResult' = Some(willOverwrite(model))
  /\ UNCHANGED <<numTransforms, formats, model, pvars, rvars,
                 transform, srcPath, args, outputFile>>

\* ---- the synchronous functions on drawn inputs ----
FnInit ==
  /\ InitProcessor
  /\ \/ /\ transform = DefaultTransform
        /\ srcPath = DefaultPath
     \/ /\ numTransforms = 1
        /\ model = <<EmptyRec>>
        /\ formats = SUPPORTED_FORMATS
        /\ \/ transform \in TransformSpecs /\ srcPath = DefaultPath
           \/ transform \in FormatOnlySpecs /\ srcPath \in Paths

FnNext ==
  \/ SetUpConvertArgs
  \/ BuildOutputFile
  \/ WillOverwrite

FnSpec == FnInit /\ [][FnNext]_vars

\* ---- properties ----
Reported == cbCount >= 1
AllEight(rec, r) ==
  /\ rec.format = Some(r.attributes[1].format)
  /\ rec.depth = Some(r.attributes[1].depth)
  /\ rec.width = Some(r.attributes[1].size.width)
  /\ rec.height = Some(r.attributes[1].size.height)
  /\ rec.size = r.stats
  /\ rec.url = r.url
  /\ rec.name = Some(attachment.name)
  /\ rec.type = r.mimeType
  /\ r.attributes \in {Some(a) : a \in OutputAttributes}
  /\ r.stats \in {Some(sz) : sz \in FileSizes}
  /\ r.mimeType \in {Some(m) : m \in MimeTypes}
  /\ r.url \in {Some(url) : url \in Urls}

\* C1: process reports success only if every unit is Committed, and when
\* success is reported every sub-record holds the eight fields taken from
\* that unit's own identify/stat/sniff/save answers and attachment.name.
C1_SuccessOnlyWhenAllCommitted ==
  (Reported /\ cbErr = NoError) =>
    \A u \in Names :
      /\ ust[u] = "Committed"
      /\ AllEight(modelAtReport[u], res[u])
      /\ model[u] = modelAtReport[u]

C1_Witness ==
  /\ numTransforms = 2
  /\ Reported /\ cbErr = NoError
  /\ res[1].attributes # res[2].attributes
  /\ res[1].url # res[2].url
  /\ pre[1] = OldRec

\* C2: a Failed unit's sub-record equals its value before the call, and a
\* sub-record is either wholly at its pre-call value or wholly committed.
C2_NoPartialWrite ==
  \A u \in Names :
    /\ ust[u] = "Failed" => model[u] = pre[u]
    /\ model[u] # pre[u] => ust[u] = "Committed" /\ AllEight(model[u], res[u])

C2_Witness ==
  /\ numTransforms = 2
  /\ ust[1] = "Failed" /\ uerr[1].kind = "save" /\ pre[1] = OldRec
  /\ ust[2] = "Committed"

\* C3: a source whose identified format is outside the allow-list makes
\* process fail with 'File was not an image'; no unit is started, convert
\* and save are never invoked and the model is unchanged.
C3_UnsupportedFormatRejected ==
  ( /\ ppc \notin {"idle", "identifying"}
    /\ srcAnswer.error = NoError
    /\ srcAnswer.attributes # Undefined
    /\ srcAnswer.attributes[1].format \notin formats ) =>
      /\ cbCount = 1
      /\ cbErr = NotAnImage
      /\ \A u \in Names : started[u] = {} /\ ust[u] = "Pending"
      /\ model = pre

C3_Witness ==
  /\ numTransforms = 2
  /\ ppc = "rejected"
  /\ formats = SUPPORTED_FORMATS
  /\ srcAnswer.attributes = Some(Attrs("BMP", 8, 40, 30))

\* C4: the caller's callback is invoked exactly once per process call; when
\* units fail it carries the error of the unit that failed first, and later
\* failures or successes never invoke it again.
C4_CallbackOnceWithFirstError ==
  /\ cbCount <= 1
  /\ (ppc = "rejected" \/ (ppc = "started" /\ \A u \in Names : ust[u] \in Terminal))
       => cbCount = 1
  /\ failOrder # << >> =>
       /\ cbCount = 1
       /\ cbErr.unit = failOrder[1]
       /\ cbErr.kind \in StageSet
       /\ cbErr = uerr[failOrder[1]]

C4_Witness ==
  /\ Len(failOrder) = 2
  /\ uerr[failOrder[1]].kind # uerr[failOrder[2]].kind
  /\ cbCount = 1

\* C5 as stated: whenever process has reported, every unit is terminal.
C5_ReportedMeansAllTerminal ==
  (ppc = "started" /\ Reported) => \A u \in Names : ust[u] \in Terminal

\* C5 amended: process starts every unit at once; a reported success means
\* every unit is Committed; a reported error means the reporting unit is
\* Failed, whatever state its siblings are in.
C5_ReportedSuccessMeansAllTerminal ==
  ppc = "started" =>
    /\ \A u \in Names : "convert" \in started[u]
    /\ Reported =>
         IF cbErr = NoError
         THEN \A u \in Names : ust[u] = "Committed"
         ELSE cbErr.unit \in Names /\ ust[cbErr.unit] = "Failed"

C5_Witness ==
  /\ numTransforms = 2
  /\ Reported /\ cbErr # NoError
  /\ \E u \in Names : ust[u] \in InFlight

\* C6: within one unit the stages are invoked in the order convert,
\* identify, stat, sniff, save, commit, each only after the previous one
\* succeeded; different units interleave freely.
C6_StagesInOrder ==
  \A u \in Names :
    /\ succeeded[u] \subseteq started[u]
    /\ \A k \in 2..Len(Stages) :
         Stages[k] \in started[u] => Stages[k - 1] \in succeeded[u]
    /\ ust[u] = "Committed" => succeeded[u] = StageSet
    /\ model[u] # pre[u] => succeeded[u] = StageSet

C6_Witness ==
  /\ numTransforms = 2
  /\ started[1] = {"convert"}
  /\ started[2] = StageSet /\ ust[2] = "Storing"

\* the answer that lets a unit in flight take its next step successfully
StepsOn(u) ==
  \/ ConvertDone(u) /\ ust'[u] = "Inspecting"
  \/ OutputIdentified(u) /\ ust'[u] = "Stating"
  \/ StatDone(u) /\ ust'[u] = "Sniffing"
  \/ SniffDone(u) /\ ust'[u] = "Storing"
  \/ SaveDone(u) /\ ust'[u] = "Committed" /\ model'[u] # model[u]

\* C7: after process reported an error, every unit still in flight can go
\* on through its remaining stages, save and commit to its sub-record.
C7_NoCancellationAfterError ==
  \A u \in Names :
    (Reported /\ cbErr # NoError /\ ust[u] \in InFlight) => ENABLED StepsOn(u)

C7_Witness ==
  /\ Reported /\ cbErr # NoError
  /\ model # modelAtReport
  /\ \E u \in Names : ust[u] = "Committed" /\ model[u].url = res[u].url

\* C8: one remove call invokes storageProvider.remove once for every name
\* whose sub-record has a non-empty url and never for the others; with no
\* url at all it reports success without calling the provider.
C8_RemoveOncePerUrl ==
  rpc = "called" =>
    /\ \A u \in Names :
         removeCalls[u] = IF model[u].url \notin {Undefined, Some("")} THEN 1 ELSE 0
    /\ (\A u \in Names : model[u].url \in {Undefined, Some("")}) =>
         /\ rcbCount = 1 /\ rcbErr = NoError
         /\ \A u \in Names : rst[u] = "none"

C8_Witness ==
  /\ numTransforms = 2
  /\ rpc = "called"
  /\ model[1] = OldRec /\ removeCalls[1] = 1
  /\ model[2] = BlankUrlRec /\ removeCalls[2] = 0

\* C9 as stated: whenever remove has reported, every removal has completed.
C9_ReportedMeansAllRemoved ==
  (rpc = "called" /\ rcbCount >= 1) => RemoveQuiescent

\* C9 amended: remove reports success only after every removal it started
\* has finished; it reports the first failure as soon as it is observed,
\* possibly with other removals still running; the callback is invoked
\* exactly once.
C9_RemoveReportsOnce ==
  /\ rcbCount <= 1
  /\ (rpc = "called" /\ RemoveQuiescent) => rcbCount = 1
  /\ (rcbCount = 1 /\ rcbErr = NoError) =>
       \A u \in Names : rst[u] = IF removeCalls[u] = 1 THEN "removed" ELSE "none"
  /\ rFailOrder # << >> =>
       /\ rcbCount = 1
       /\ rcbErr = StageError("remove", rFailOrder[1])

C9_Witness ==
  /\ Len(rFailOrder) = 2
  /\ rcbCount = 1

\* C10 as stated: a failed identification of the source is reported as the
\* 'File was not an image' error.
C10_IdentifyErrorIsNotAnImage ==
  (ppc \notin {"idle", "identifying"} /\ srcAnswer.error # NoError) =>
    cbErr = NotAnImage

\* C10 amended: a failed identification of the source makes process fail
\* at once with the engine's own error, passed on unchanged, and no unit
\* is started.
C10_IdentifyErrorPassedThrough ==
  (ppc \notin {"idle", "identifying"} /\ srcAnswer.error # NoError) =>
    /\ ppc = "rejected"
    /\ cbCount = 1
    /\ cbErr = srcAnswer.error
    /\ cbErr # NotAnImage
    /\ \A u \in Names : started[u] = {} /\ ust[u] = "Pending"
    /\ model = pre

C10_Witness ==
  /\ numTransforms = 2
  /\ ppc = "rejected"
  /\ srcAnswer.error = EngineError


\* C11: the unit of name A writes only to model[A]: whenever a step changes
\* a sub-record, it is the step of that sub-record's own unit and of no
\* other unit, under any interleaving.
C11_UnitsWriteDisjointSubRecords ==
  [][\A b \in Names :
       model'[b] # model[b] =>
         /\ ust'[b] # ust[b]
         /\ \A a \in Names \ {b} : ust'[a] = ust[a] /\ res'[a] = res[a]]_vars

C11_Witness ==
  /\ numTransforms = 2
  /\ ust[1] = "Committed" /\ model[1] # pre[1]
  /\ ust[2] \in InFlight /\ model[2] = pre[2] /\ pre[2] = OldRec


\* C15: process performs no compensating cleanup: during a process call,
\* also one that reports an error after siblings stored their blobs or one
\* that overwrites a sub-record that had a url, storageProvider.remove is
\* never invoked.
C15_ProcessNeverRemoves ==
  ppc # "idle" =>
    \A u \in Names : removeCalls[u] = 0 /\ rst[u] = "none"

C15_Witness ==
  /\ numTransforms = 2
  /\ Reported /\ cbErr # NoError
  /\ ust[1] = "Committed" /\ pre[1] = OldRec /\ "save" \in succeeded[1]
  /\ ust[2] = "Failed"
  /\ failOrder = <<2>>
  /\ modelAtReport[1] = model[1]

StageIndex(s) == CHOOSE i \in 1..Len(Stages) : Stages[i] = s
StagesUpTo(k) == {Stages[i] : i \in 1..k}

\* C16: once a stage of a unit fails no later stage of that unit is invoked
\* (save is never called after a failed convert, identify, stat or sniff),
\* and the unit's terminal error is the error of the stage that failed.
C16_StageErrorShortCircuits ==
  \A u \in Names :
    ust[u] = "Failed" =>
      /\ uerr[u].unit = u
      /\ uerr[u].kind \in StageSet
      /\ started[u] = StagesUpTo(StageIndex(uerr[u].kind))
      /\ succeeded[u] = StagesUpTo(StageIndex(uerr[u].kind) - 1)
      /\ uerr[u].kind # "save" => "save" \notin started[u]

C16_Witness ==
  /\ numTransforms = 2
  /\ ust[1] = "Failed" /\ uerr[1] = StageError("sniff", 1)
  /\ ust[2] = "Committed"

\* C17: a unit whose save succeeded always commits: no unit is Failed after
\* a successful save, and the url on its sub-record is the url that save
\* returned, so no blob saved during the call is left unreferenced.
C17_SavedMeansCommitted ==
  \A u \in Names :
    /\ "save" \in succeeded[u] =>
         /\ ust[u] = "Committed"
         /\ res[u].url \in {Some(url) : url \in Urls}
         /\ model[u].url = res[u].url
    /\ ust[u] = "Failed" => "save" \notin succeeded[u]

C17_Witness ==
  /\ numTransforms = 2
  /\ Reported /\ cbErr # NoError
  /\ \A u \in Names : ust[u] \in Terminal
  /\ "save" \in succeeded[1] /\ pre[1] = OldRec /\ model[1].url = res[1].url
  /\ ust[2] = "Failed"


\* C12: willOverwrite(model) is exactly whether the sub-record of the last
\* configured name has a non-empty url, whatever the urls of the earlier
\* names (false with no name), and the model is left as it was.
C12_WillOverwriteIsLastName ==
  woResult # Undefined =>
    /\ woResult = Some(/\ numTransforms > 0
                       /\ model[numTransforms].url \notin {Undefined, Some("")})
    /\ model = pre

C12_Witness ==
  /\ numTransforms = 2
  /\ model[1] = OldRec /\ model[2] = EmptyRec
  /\ woResult = Some(FALSE)

\* tokens that entry i of a TransformSpec contributes
TokensOf(t, i) ==
  IF t[i].key = FormatKey THEN 0
  ELSE IF t[i].value.array THEN 1 + Len(t[i].value.items) ELSE 2
RECURSIVE TokensBefore(_, _)
TokensBefore(t, i) == IF i <= 1 THEN 0 ELSE TokensBefore(t, i - 1) + TokensOf(t, i - 1)

\* C14: _setUpConvertArgs emits nothing for the key format and, for every
\* other key in key order, the token '-' + key followed by the scalar value
\* or by the elements of the list in order (an empty list: the flag alone).
C14_ConvertArgsShape ==
  args # Undefined =>
    LET t == transform
        out == args[1]
    IN /\ Len(out) = TokensBefore(t, Len(t) + 1)
       /\ \A i \in 1..Len(t) :
            t[i].key # FormatKey =>
              LET at == TokensBefore(t, i) IN
              /\ out[at + 1] = <<"-">> \o t[i].key
              /\ Len(out[at + 1]) = Len(t[i].key) + 1
              /\ IF t[i].value.array
                 THEN \A k \in 1..Len(t[i].value.items) :
                        out[at + 1 + k] = t[i].value.items[k]
                 ELSE out[at + 2] = t[i].value.items[1]
       /\ \A n \in 1..Len(out) : out[n] # <<"-">> \o FormatKey

C14_Witness ==
  /\ Len(transform) = 2
  /\ transform[1].key = FormatKey
  /\ transform[2].value = Array(<< <<"x">>, <<"1", "0">> >>)
  /\ args # Undefined
  /\ Len(args[1]) = 3

HexChars == {HexDigits[i] : i \in 1..Len(HexDigits)}

\* C20: the temp path is tmpDir, a separator, 20 random hex characters and
\* an extension: the transform's format when set, else the extension of
\* the source path; it begins with the dot supplied or one prepended dot.
C20_TempPathShape ==
  outputFile # Undefined =>
    LET o == outputFile[1]
        d == Len(tmpDir) + 1
        name == SubSeq(o, d + 1, d + RandomNameLen)
        ext == SubSeq(o, d + RandomNameLen + 1, Len(o))
        f == FormatOf(transform)
        src == ExtName(srcPath)
    IN /\ Len(o) > d + RandomNameLen
       /\ SubSeq(o, 1, d) = tmpDir \o <<Slash>>
       /\ Len(name) = RandomNameLen
       /\ \A i \in 1..Len(name) : name[i] \in HexChars
       /\ ext[1] = Dot
       /\ IF f # Undefined /\ f[1] # << >>
          THEN IF f[1][1] = Dot THEN ext = f[1] ELSE Tail(ext) = f[1]
          ELSE IF src = << >> THEN ext = <<Dot>> ELSE ext = src

C20_Witness ==
  /\ outputFile # Undefined
  /\ transform = << >>
  /\ srcPath = <<"a">>
  /\ Len(outputFile[1]) = Len(tmpDir) + 1 + RandomNameLen + 1


ProcessSettled ==
  /\ cbCount = 1
  /\ \/ ppc = "rejected"
     \/ ppc = "started" /\ \A u \in Names : ust[u] \in Terminal

\* C18: when every collaborator call answers, a process call eventually
\* has reported exactly one outcome with every started unit Committed or
\* Failed; with no configured transform it reports success as soon as the
\* source is identified.
C18_ProcessTerminates ==
  /\ (ppc = "identifying") ~> ProcessSettled
  /\ [](cbCount <= 1)
  /\ []((ppc = "started" /\ numTransforms = 0) => (cbCount = 1 /\ cbErr = NoError))

C18_Witness ==
  /\ numTransforms = 2
  /\ ProcessSettled
  /\ ust[1] = "Failed" /\ ust[2] = "Committed"
  /\ cbErr = uerr[1]

\* C19: remove leaves the model as it was, whether removals succeed or
\* fail: willOverwrite answers the same before and after, and a second
\* remove invokes storageProvider.remove for the same sub-records again.
C19_RemoveLeavesModel ==
  [][rvars' # rvars =>
       /\ model' = model
       /\ willOverwrite(model') = willOverwrite(model)
       /\ (rcalls >= 1 /\ rcalls' = rcalls + 1) => removeCalls' = removeCalls]_vars

C19_Witness ==
  /\ numTransforms = 2
  /\ rcalls = 2
  /\ model[1] = EmptyRec
  /\ model[2] = OldRec /\ removeCalls[2] = 1 /\ rst[2] = "inflight"

====
